---- MODULE Spec2Model ----
(***************************************************************************)
(* State-machine model of the two cryoDRGN training entry points,          *)
(* vae_rot.py (single view) and vae_tilt.py (tilt pair): configuration     *)
(* validation, particle loading and normalisation, the epoch / minibatch   *)
(* loop with its loss composition and NaN check, the epoch-boundary        *)
(* checkpoints, the volume evaluator and the final save.                   *)
(*                                                                         *)
(* Floating-point numbers are modelled as exact rationals <<n, d>> in      *)
(* lowest terms with d > 0, plus the value NaN == <<0, 0>>, which every    *)
(* arithmetic operation propagates.  Rounding is not modelled.             *)
(* An optional value (Python None or a value) is <<>> or <<v>>.            *)
(***************************************************************************)
EXTENDS Integers, Sequences, FiniteSets

(***************************************************************************)
(* Rationals                                                               *)
(***************************************************************************)
NaN == <<0, 0>>

IsNaN(r) == r[2] = 0

Abs(n) == IF n < 0 THEN -n ELSE n

RECURSIVE GCD(_, _)
GCD(a, b) == IF b = 0 THEN a ELSE GCD(b, a % b)

Norm(n, d) ==
    IF d = 0 THEN NaN
    ELSE LET s == IF d < 0 THEN -1 ELSE 1
             g == GCD(Abs(n), Abs(d))
         IN  <<(s * n) \div g, (s * d) \div g>>

R(n) == <<n, 1>>

\* a[1]*(b[2]/g) + sign*b[1]*(a[2]/g) over (a[2]/g)*b[2], g the common divisor of
\* the denominators, so that the products stay small
RSum(a, b, sign) ==
    LET g == GCD(a[2], b[2])
    IN  Norm(a[1] * (b[2] \div g) + sign * b[1] * (a[2] \div g), (a[2] \div g) * b[2])

RAdd(a, b) == IF IsNaN(a) \/ IsNaN(b) THEN NaN ELSE RSum(a, b, 1)

RSub(a, b) == IF IsNaN(a) \/ IsNaN(b) THEN NaN ELSE RSum(a, b, -1)

RMul(a, b) ==
    IF IsNaN(a) \/ IsNaN(b) THEN NaN
    ELSE LET g1 == GCD(Abs(a[1]), b[2])
             g2 == GCD(Abs(b[1]), a[2])
         IN  Norm((a[1] \div g1) * (b[1] \div g2), (a[2] \div g2) * (b[2] \div g1))

\* a / b for b # 0 (the callers guard a zero divisor, which Python raises on)
RDiv(a, b) == IF IsNaN(a) \/ IsNaN(b) THEN NaN ELSE RMul(a, Norm(b[2], b[1]))

\* comparisons with NaN are false
RLt(a, b) == ~IsNaN(a) /\ ~IsNaN(b) /\ RSum(a, b, -1)[1] < 0

RLe(a, b) == ~IsNaN(a) /\ ~IsNaN(b) /\ RSum(a, b, -1)[1] <= 0

RMin(a, b) == IF RLe(a, b) THEN a ELSE b

RMax(a, b) == IF RLe(a, b) THEN b ELSE a

\* np.clip(x, lo, hi)
RClip(x, lo, hi) == IF IsNaN(x) THEN NaN ELSE RMin(RMax(x, lo), hi)

Max(a, b) == IF a >= b THEN a ELSE b

\* np.ceil(a / b).astype(int) for a >= 0, b > 0
CeilDiv(a, b) == (a + b - 1) \div b

(***************************************************************************)
(* Optional values and Python truthiness                                   *)
(***************************************************************************)
None == <<>>

Some(v) == <<v>>

IsNone(o) == o = <<>>

\* truth value of an optional float: None and 0.0 are false
TruthyFloat(o) == ~IsNone(o) /\ o[1][1] # 0

(***************************************************************************)
(* Command-line text and float(text)                                       *)
(* A text is a sequence of one-character strings.                          *)
(***************************************************************************)
Digits == {"0", "1", "2", "3", "4", "5", "6", "7", "8", "9"}

DigitVal(c) ==
    CASE c = "0" -> 0 [] c = "1" -> 1 [] c = "2" -> 2 [] c = "3" -> 3 [] c = "4" -> 4
      [] c = "5" -> 5 [] c = "6" -> 6 [] c = "7" -> 7 [] c = "8" -> 8 [] c = "9" -> 9

\* positions of the decimal points of a text
Dots(s) == {i \in 1..Len(s) : s[i] = "."}

\* float(text) succeeds: digits with at most one decimal point, at least one digit
\* (signs, exponents, "nan" and "inf" are outside the texts the model draws)
IsFloatText(s) ==
    /\ \A i \in 1..Len(s) : s[i] \in Digits \cup {"."}
    /\ Cardinality(Dots(s)) <= 1
    /\ \E i \in 1..Len(s) : s[i] \in Digits

RECURSIVE DigitsValue(_, _)
DigitsValue(s, acc) == IF s = <<>> THEN acc ELSE DigitsValue(Tail(s), 10 * acc + DigitVal(Head(s)))

RECURSIVE Pow10(_)
Pow10(k) == IF k = 0 THEN 1 ELSE 10 * Pow10(k - 1)

\* float(text) for a text with IsFloatText
FloatOfText(s) ==
    LET dot  == IF Dots(s) = {} THEN Len(s) + 1 ELSE CHOOSE i \in Dots(s) : TRUE
        ip   == SubSeq(s, 1, dot - 1)
        fp   == SubSeq(s, dot + 1, Len(s))
    IN  Norm(DigitsValue(ip, 0) * Pow10(Len(fp)) + DigitsValue(fp, 0), Pow10(Len(fp)))

\* the value of --beta: a Python float (the default) or the text given on the command line
BetaFloat(r) == [type |-> "float", text |-> <<>>, val |-> r]

BetaStr(s) == [type |-> "str", text |-> s, val |-> NaN]

(***************************************************************************)
(* Schedules (beta_schedule module): a schedule is a record; Call          *)
(* evaluates it at an iteration.                                           *)
(***************************************************************************)
NoSchedule == [kind |-> "unset", value |-> NaN, min_y |-> NaN, max_y |-> NaN, start_x |-> 0, start_y |-> NaN, coef |-> NaN]

ErrSchedule == [NoSchedule EXCEPT !.kind = "error"]

ConstantSchedule(v) == [NoSchedule EXCEPT !.kind = "const", !.value = v]

\* linear from (start_x, start_y) to (end_x, end_y), clipped to the range of the two
\* values; the slope divides by end_x - start_x, which raises when that is zero
LinearSchedule(start_y, end_y, start_x, end_x) ==
    IF end_x = start_x THEN ErrSchedule
    ELSE [kind |-> "linear", value |-> NaN,
          min_y |-> RMin(start_y, end_y), max_y |-> RMax(start_y, end_y),
          start_x |-> start_x, start_y |-> start_y,
          coef |-> RDiv(RSub(end_y, start_y), R(end_x - start_x))]

\* schedule(x)
Call(sch, x) ==
    IF sch.kind = "const" THEN sch.value
    ELSE RClip(RAdd(RMul(R(x - sch.start_x), sch.coef), sch.start_y), sch.min_y, sch.max_y)

\* the predefined named annealing curves
NamedCurves == {<<"a">>}

NamedCurve(name) == LinearSchedule(<<1, 2>>, R(2), 0, 6)

\* get_beta_schedule(beta): the set of its possible results.  A float gives the
\* constant schedule and a curve name its curve; an unknown name is an error.  A
\* numeric text is neither a number nor a name: either outcome is allowed.
get_beta_schedule(beta) ==
    IF beta.type = "float" THEN {ConstantSchedule(beta.val)}
    ELSE IF beta.text \in NamedCurves THEN {NamedCurve(beta.text)}
    ELSE IF IsFloatText(beta.text) THEN {ErrSchedule, ConstantSchedule(FloatOfText(beta.text))}
    ELSE {ErrSchedule}

(***************************************************************************)
(* The decoder (models module) and the volume evaluator                    *)
(***************************************************************************)
\* model.decoder at lattice point p translated to third coordinate z
Decoder(decoder, model_state, p, z) ==
    IF decoder.kind = "const" THEN decoder.c
    ELSE RAdd(RAdd(decoder.c, z), R(p + model_state))

\* variant of Linspace with the endpoint 1 included: the step is 2/(nz-1)
LinspaceEndpointIncluded(nz, i) == IF nz = 1 THEN R(-1) ELSE RAdd(R(-1), RMul(R(i), RDiv(R(2), R(nz - 1))))

\* np.linspace(-1, 1, nz, endpoint=False)[i], i in 0..nz-1
Linspace(nz, i) == RAdd(R(-1), RMul(R(i), RDiv(R(2), R(nz))))

\* np.zeros((nz, ny, nx)): nz slices of ny*nx values
Zeros(nz, ny, nx) == [i \in 1..nz |-> [p \in 1..(ny * nx) |-> R(0)]]

\* y*norm[1] + norm[0], elementwise on a slice
DenormSlice(y, norm) == [p \in DOMAIN y |-> RAdd(RMul(y[p], norm[2]), norm[1])]

\* one decoder query: the whole lattice translated by z along the third axis
Query(decoder, model_state, ny, nx, z) == [p \in 1..(ny * nx) |-> Decoder(decoder, model_state, p, z)]

NoEval == [called |-> FALSE, training |-> FALSE, norm |-> <<NaN, NaN>>, queries |-> <<>>, writes |-> <<>>, vol_f |-> <<>>, fed |-> <<>>]

\* the slice loop of eval_volume (single view): slice i is stored denormalised
RECURSIVE eval_loop_rot(_, _, _, _, _, _, _, _)
eval_loop_rot(acc, i, decoder, model_state, nz, ny, nx, rnorm) ==
    IF i >= nz THEN acc
    ELSE LET z == Linspace(nz, i)
             y == Query(decoder, model_state, ny, nx, z)
         IN  eval_loop_rot([acc EXCEPT !.queries = Append(@, [z |-> z, npts |-> Len(y)]),
                                       !.writes = Append(@, i),
                                       !.vol_f[i + 1] = DenormSlice(y, rnorm)],
                           i + 1, decoder, model_state, nz, ny, nx, rnorm)

\* eval_volume of vae_rot.py, after its assertion: vol_f goes to the inverse transform
eval_volume_rot(decoder, model_state, nz, ny, nx, rnorm) ==
    LET acc == eval_loop_rot([NoEval EXCEPT !.called = TRUE, !.norm = rnorm, !.vol_f = Zeros(nz, ny, nx)],
                             0, decoder, model_state, nz, ny, nx, rnorm)
    IN  [acc EXCEPT !.fed = acc.vol_f]

\* the slice loop of eval_volume (tilt pair): slice i is stored as decoded
RECURSIVE eval_loop_tilt(_, _, _, _, _, _, _)
eval_loop_tilt(acc, i, decoder, model_state, nz, ny, nx) ==
    IF i >= nz THEN acc
    ELSE LET z == Linspace(nz, i)
             y == Query(decoder, model_state, ny, nx, z)
         IN  eval_loop_tilt([acc EXCEPT !.queries = Append(@, [z |-> z, npts |-> Len(y)]),
                                        !.writes = Append(@, i),
                                        !.vol_f[i + 1] = y],
                            i + 1, decoder, model_state, nz, ny, nx)

\* eval_volume of vae_tilt.py, after its assertion: vol_f*ft_norm[1]+ft_norm[0]
\* goes to the inverse transform
eval_volume_tilt(decoder, model_state, nz, ny, nx, ft_norm) ==
    LET acc == eval_loop_tilt([NoEval EXCEPT !.called = TRUE, !.norm = ft_norm, !.vol_f = Zeros(nz, ny, nx)],
                              0, decoder, model_state, nz, ny, nx)
    IN  [acc EXCEPT !.fed = [i \in 1..nz |-> DenormSlice(acc.vol_f[i], ft_norm)]]

(***************************************************************************)
(* Bounds of the model, and the one number the code fixes                  *)
(***************************************************************************)
MaxEpochs == 3

MaxNimg == 3

MaxBatch == 2

MaxCkpt == 2

MaxDim == 2

\* first iteration of the equivariance ramp: LinearSchedule(0, w, 10000, end_it)
RAMP_START == 10000

(***************************************************************************)
(* State                                                                   *)
(***************************************************************************)
VARIABLES
    args,                 \* the parsed command line (args.beta is rewritten by vae_tilt.py)
    data,                 \* what the run reads: the stacks' shapes and statistics, the decoder, the values a forward pass may produce
    pc,                   \* position in main
    err,                  \* the exception that ended the run, or "none"
    log,                  \* the log lines written, by tag
    vols,                 \* density-map files written: [suffix, vol]
    bundles,              \* checkpoint bundles written: [suffix, epoch, model_state_dict, optimizer_state_dict]
    beta_schedule,
    rnorm,                \* vae_rot.py: the one normalisation variable, bound twice
    real_norm, ft_norm,   \* vae_tilt.py: the two normalisation variables
    stacks,               \* the (offset, scale) each in-memory stack was normalised with
    equivariance_lambda,
    training,             \* model.training
    model_state,          \* model.state_dict()
    optim_state,          \* optim.state_dict()
    grad,                 \* the parameters' gradients: "zero" or "computed"
    start_epoch,
    epoch,                \* the loop variable: None until the loop binds it
    batches,              \* the minibatches the inner loop has yet to visit
    minibatch_i, batch_it, global_it,
    iter,                 \* the values of the current iteration
    trace,                \* the steps the current iteration has taken
    evalres               \* the last eval_volume call

cfgv == <<args, data>>

setupv == <<beta_schedule, rnorm, real_norm, ft_norm, stacks, equivariance_lambda, start_epoch>>

modelv == <<training, model_state, optim_state, grad>>

loopv == <<epoch, batches, minibatch_i, batch_it, global_it, iter, trace>>

outv == <<log, vols, bundles, evalres>>

vars == <<args, data, pc, err, log, vols, bundles, beta_schedule, rnorm, real_norm, ft_norm, stacks, equivariance_lambda, training, model_state, optim_state, grad, start_epoch, epoch, batches, minibatch_i, batch_it, global_it, iter, trace, evalres>>

NoNorm == <<NaN, NaN>>

NoIter == [enc_norm |-> NoNorm, enc_norm_tilt |-> NoNorm, target_norm |-> NoNorm, target_norm_tilt |-> NoNorm, gen_loss |-> NaN, kld |-> NaN, eq_loss |-> NaN, lamb |-> NaN, beta |-> NaN, loss |-> NaN]

(***************************************************************************)
(* The runs the model explores: a base configuration (the argparse         *)
(* defaults where the bounds allow) varied along one group of options at   *)
(* a time.  vae_rot.py has no tilted stack and no equivariance options:    *)
(* its runs leave them at None.                                            *)
(***************************************************************************)
Variants == {"rot", "tilt"}

BaseArgs(v) == [variant |-> v, beta |-> BetaFloat(R(1)), beta_control |-> None, equivariance |-> None, equivariance_end_it |-> 100000, load |-> None, checkpoint |-> 1, log_interval |-> 2, num_epochs |-> 1, batch_size |-> 1]

BaseData == [Nimg |-> 1, ny |-> 1, nx |-> 1, tilt_shape |-> <<1, 1, 1>>, real_mean |-> <<1, 4>>, real_std |-> R(1), real_medmax |-> R(3), ft_mean |-> <<1, 8>>, ft_std |-> R(2), decoder |-> [kind |-> "const", c |-> R(1)], gen_losses |-> {R(2)}, klds |-> {R(1), NaN}, eq_losses |-> {R(1)}]

\* a bundle a previous run saved after its epoch e
Ckpt(e) == [epoch |-> e, model_state_dict |-> 10 + e, optimizer_state_dict |-> 20 + e]

Loads == {None} \cup {Some(Ckpt(e)) : e \in 0..MaxEpochs}

Shaped(d, n, y, x) == [d EXCEPT !.Nimg = n, !.ny = y, !.nx = x, !.tilt_shape = <<n, y, x>>]

\* epoch count, starting epoch and checkpoint interval
RunConfigs == {<<[BaseArgs(v) EXCEPT !.load = l, !.num_epochs = n, !.checkpoint = c], Shaped(BaseData, 2, 1, 1)>> : v \in Variants, l \in Loads, n \in 0..MaxEpochs, c \in 0..MaxCkpt}

\* stack size and batch size
BatchConfigs == {<<[BaseArgs(v) EXCEPT !.batch_size = b, !.num_epochs = 2, !.checkpoint = c], Shaped(BaseData, n, 1, 1)>> : v \in Variants, b \in 1..MaxBatch, n \in 1..MaxNimg, c \in {0, 2}}

BetaChoices == {BetaFloat(R(1)), BetaStr(<<"0", ".", "5">>), BetaStr(<<"a">>), BetaStr(<<"q">>)}

ControlChoices == {None, Some(R(0)), Some(R(4))}

EquivarianceChoices == {None, Some(R(-1)), Some(R(0)), Some(R(1)), Some(<<1, 2>>)}

EndItChoices == {0, 5000, 10000, 100000}

TiltShapes(d) == {<<d.Nimg, d.ny, d.nx>>, <<d.Nimg + 1, d.ny, d.nx>>, <<d.Nimg, d.ny, d.nx + 1>>}

\* the options that configuration validation looks at
ValidationConfigs ==
    {<<[BaseArgs("rot") EXCEPT !.beta = b, !.beta_control = g], BaseData>> : b \in BetaChoices, g \in ControlChoices}
    \cup {<<[BaseArgs("tilt") EXCEPT !.beta = b, !.beta_control = g, !.equivariance = w], [BaseData EXCEPT !.tilt_shape = t]>> : b \in BetaChoices, g \in ControlChoices, w \in EquivarianceChoices, t \in TiltShapes(BaseData)}

LossData(y, x) == [Shaped(BaseData, 2, y, x) EXCEPT !.gen_losses = {R(0), R(2)}, !.klds = {<<1, 2>>, R(1), R(3), NaN}, !.eq_losses = {R(0), R(3)}]

\* the inputs of the loss composer
LossConfigs ==
    {<<[BaseArgs("rot") EXCEPT !.beta = b, !.beta_control = g, !.checkpoint = 0], LossData(y, x)>> : b \in BetaChoices, g \in {None, Some(R(4))}, y \in 1..MaxDim, x \in 1..MaxDim}
    \cup {<<[BaseArgs("tilt") EXCEPT !.beta = b, !.beta_control = g, !.equivariance = w, !.equivariance_end_it = e, !.checkpoint = 0], LossData(y, x)>> : b \in BetaChoices, g \in {None, Some(R(4))}, w \in {None, Some(R(1)), Some(<<1, 2>>)}, e \in EndItChoices, y \in 1..MaxDim, x \in 1..MaxDim}

\* the two worked examples of the loss composer: 10x10 images, gen_loss 2.0, kld 1.0
ExampleConfigs == {<<[BaseArgs("tilt") EXCEPT !.beta = b, !.beta_control = g, !.checkpoint = 0], [Shaped(BaseData, 1, 10, 10) EXCEPT !.klds = {R(1)}]>> : b \in {BetaStr(<<"0", ".", "5">>), BetaStr(<<"0", ".", "8">>)}, g \in {None, Some(R(4))}}

DecoderChoices == {[kind |-> k, c |-> c] : k \in {"const", "varying"}, c \in {R(0), R(1), <<-3, 2>>}}

\* the volume evaluator's inputs and the normalisation statistics
VolumeConfigs == {<<BaseArgs(v), [Shaped(BaseData, 1, y, x) EXCEPT !.decoder = d, !.real_medmax = m, !.ft_std = f]>> : v \in Variants, y \in 1..MaxDim, x \in 1..MaxDim, d \in DecoderChoices, m \in {R(3)}, f \in {R(2), <<1, 2>>}}

Configs == RunConfigs \cup BatchConfigs \cup ValidationConfigs \cup LossConfigs \cup ExampleConfigs \cup VolumeConfigs

Init ==
    /\ \E c \in Configs : args = c[1] /\ data = c[2]
    /\ pc = "start"
    /\ err = "none"
    /\ log = <<>>
    /\ vols = {}
    /\ bundles = {}
    /\ beta_schedule = NoSchedule
    /\ rnorm = NoNorm
    /\ real_norm = NoNorm
    /\ ft_norm = NoNorm
    /\ stacks = [real |-> NoNorm, ft |-> NoNorm, tilt |-> NoNorm, tilt_ft |-> NoNorm]
    /\ equivariance_lambda = NoSchedule
    /\ training = FALSE
    /\ model_state = 0
    /\ optim_state = 0
    /\ grad = "zero"
    /\ start_epoch = 0
    /\ epoch = None
    /\ batches = <<>>
    /\ minibatch_i = <<>>
    /\ batch_it = 0
    /\ global_it = 0
    /\ iter = NoIter
    /\ trace = <<>>
    /\ evalres = NoEval

(***************************************************************************)
(* Start-up: validation, loading, normalisation, model construction       *)
(***************************************************************************)
Crash(e) == pc' = "crashed" /\ err' = e

Goto(l) == pc' = l /\ err' = err

\* vae_rot.py: the schedule is built first, then a text beta needs a control weight
Validate_rot ==
    /\ pc = "start" /\ args.variant = "rot"
    /\ log' = log \o <<"args", "cuda">>
    /\ \E sch \in get_beta_schedule(args.beta) :
         IF sch.kind = "error"
         THEN beta_schedule' = beta_schedule /\ Crash("RuntimeError: beta schedule")
         ELSE /\ beta_schedule' = sch
              /\ IF args.beta.type = "str" /\ ~TruthyFloat(args.beta_control)
                 THEN Crash("AssertionError: Need to set beta control weight")
                 ELSE Goto("load_particles")
    /\ UNCHANGED <<cfgv, vols, bundles, evalres, rnorm, real_norm, ft_norm, stacks, equivariance_lambda, start_epoch, modelv, loopv>>

\* args.beta after "try: args.beta = float(args.beta)"; the default is a float already
BetaAsFloat(beta) == IF beta.type = "float" THEN beta ELSE BetaFloat(FloatOfText(beta.text))

\* float(args.beta) raises ValueError
BetaNotFloat(beta) == beta.type = "str" /\ ~IsFloatText(beta.text)

\* vae_tilt.py: beta is converted to a float; only a text that is no number needs a
\* control weight; then the schedule is built
Validate_tilt ==
    /\ pc = "start" /\ args.variant = "tilt"
    /\ log' = log \o <<"args", "cuda">>
    /\ IF BetaNotFloat(args.beta) /\ ~TruthyFloat(args.beta_control)
       THEN /\ Crash("AssertionError: Need to set beta control weight")
            /\ UNCHANGED <<args, beta_schedule>>
       ELSE /\ args' = IF BetaNotFloat(args.beta) THEN args ELSE [args EXCEPT !.beta = BetaAsFloat(args.beta)]
            /\ \E sch \in get_beta_schedule(args'.beta) :
                 IF sch.kind = "error"
                 THEN beta_schedule' = beta_schedule /\ Crash("RuntimeError: beta schedule")
                 ELSE beta_schedule' = sch /\ Goto("load_particles")
    /\ UNCHANGED <<data, vols, bundles, evalres, rnorm, real_norm, ft_norm, stacks, equivariance_lambda, start_epoch, modelv, loopv>>

\* [mean, std] of the real-space stack, then offset forced to 0 and scale to the
\* median of the per-image maxima
RealNormOf(d) == LET r0 == <<d.real_mean, d.real_std>> IN [[r0 EXCEPT ![1] = R(0)] EXCEPT ![2] = d.real_medmax]

\* variant of FtNormOf that keeps the mean as the offset
FtNormOf_MeanKept(d) == <<d.ft_mean, d.ft_std>>

\* [mean, std] of the Fourier-space stack, then offset forced to 0
FtNormOf(d) == LET f0 == <<d.ft_mean, d.ft_std>> IN [f0 EXCEPT ![1] = R(0)]

\* vae_rot.py: rnorm is bound to the real-space pair, used, then bound to the Fourier pair
LoadParticles_rot ==
    /\ pc = "load_particles" /\ args.variant = "rot"
    /\ log' = log \o <<"loaded", "stack_stats", "normalizing", "ft_stats", "normalizing_ft">>
    /\ LET rnorm1 == RealNormOf(data)
           rnorm2 == FtNormOf(data)
       IN  /\ stacks' = [stacks EXCEPT !.real = rnorm1, !.ft = rnorm2]
           /\ rnorm' = rnorm2
    /\ Goto("build_model")
    /\ UNCHANGED <<cfgv, vols, bundles, evalres, beta_schedule, real_norm, ft_norm, equivariance_lambda, start_epoch, modelv, loopv>>

LoadParticles_tilt ==
    /\ pc = "load_particles" /\ args.variant = "tilt"
    /\ log' = log \o <<"loaded", "stack_stats", "normalizing", "ft_stats", "normalizing_ft">>
    /\ real_norm' = RealNormOf(data)
    /\ ft_norm' = FtNormOf(data)
    /\ stacks' = [stacks EXCEPT !.real = real_norm', !.ft = ft_norm']
    /\ Goto("load_tilt")
    /\ UNCHANGED <<cfgv, vols, bundles, evalres, beta_schedule, rnorm, equivariance_lambda, start_epoch, modelv, loopv>>

\* variant of ShapesMatch that compares nothing
ShapesMatch_Unchecked(d) == TRUE

\* particles_tilt.shape == (Nimg, ny, nx)
ShapesMatch(d) == d.tilt_shape = <<d.Nimg, d.ny, d.nx>>

\* vae_tilt.py: the tilted stack must have the untilted stack's shape and is
\* normalised with the untilted stack's two pairs
LoadTilt ==
    /\ pc = "load_tilt"
    /\ IF ~ShapesMatch(data)
       THEN Crash("AssertionError: Tilt series pair must have same dimensions") /\ stacks' = stacks
       ELSE Goto("build_model") /\ stacks' = [stacks EXCEPT !.tilt = real_norm, !.tilt_ft = ft_norm]
    /\ UNCHANGED <<cfgv, outv, beta_schedule, rnorm, real_norm, ft_norm, equivariance_lambda, start_epoch, modelv, loopv>>

\* vae_rot.py: VAE(...) and Adam; a new module is in training mode
BuildModel_rot ==
    /\ pc = "build_model" /\ args.variant = "rot"
    /\ training' = TRUE /\ model_state' = 0 /\ optim_state' = 0 /\ grad' = "zero"
    /\ Goto("load_checkpoint")
    /\ UNCHANGED <<cfgv, outv, setupv, loopv>>

\* vae_tilt.py: TiltVAE(...), the equivariance ramp when a weight is given, Adam
BuildModel_tilt ==
    /\ pc = "build_model" /\ args.variant = "tilt"
    /\ training' = TRUE /\ model_state' = 0 /\ optim_state' = 0 /\ grad' = "zero"
    /\ IF ~TruthyFloat(args.equivariance)
       THEN Goto("load_checkpoint") /\ equivariance_lambda' = equivariance_lambda
       ELSE IF ~RLt(R(0), args.equivariance[1])
       THEN Crash("AssertionError: Regularization weight must be positive") /\ equivariance_lambda' = equivariance_lambda
       ELSE LET sch == LinearSchedule(R(0), args.equivariance[1], RAMP_START, args.equivariance_end_it)
            IN  IF sch.kind = "error"
                THEN Crash("ZeroDivisionError: equivariance ramp") /\ equivariance_lambda' = equivariance_lambda
                ELSE Goto("load_checkpoint") /\ equivariance_lambda' = sch
    /\ UNCHANGED <<cfgv, outv, beta_schedule, rnorm, real_norm, ft_norm, stacks, start_epoch, loopv>>

\* "if args.load:" (the same code in both files)
LoadCheckpoint ==
    /\ pc = "load_checkpoint"
    /\ IF ~IsNone(args.load)
       THEN LET checkpoint == args.load[1]
            IN  /\ log' = Append(log, "loading_checkpoint")
                /\ model_state' = checkpoint.model_state_dict
                /\ optim_state' = checkpoint.optimizer_state_dict
                /\ start_epoch' = checkpoint.epoch + 1
                /\ training' = TRUE
       ELSE /\ start_epoch' = 0
            /\ UNCHANGED <<log, model_state, optim_state, training>>
    /\ Goto("epoch_head")
    /\ UNCHANGED <<cfgv, vols, bundles, evalres, beta_schedule, rnorm, real_norm, ft_norm, stacks, equivariance_lambda, grad, loopv>>

(***************************************************************************)
(* The training loop                                                       *)
(***************************************************************************)
\* np.random.permutation(n): any ordering of the image indices 0..n-1
permutation(n) == {q \in [1..n -> 0..(n - 1)] : \A i, j \in 1..n : q[i] = q[j] => i = j}

\* variant of ArraySplit whose chunks all have Len(s) \div n elements: the remainder is dropped
ArraySplit_Truncating(s, n) ==
    LET q == Len(s) \div n
    IN  [k \in 1..n |-> SubSeq(s, (k - 1) * q + 1, k * q)]

\* np.array_split(s, n): n consecutive chunks, the first Len(s) % n one longer
ArraySplit(s, n) ==
    LET q == Len(s) \div n
        r == Len(s) % n
        start(k) == (k - 1) * q + (IF k - 1 < r THEN k - 1 ELSE r)
        size(k) == q + (IF k <= r THEN 1 ELSE 0)
    IN  [k \in 1..n |-> SubSeq(s, start(k) + 1, start(k) + size(k))]

\* the next value of "for epoch in range(start_epoch, num_epochs)"
NextEpoch == IF IsNone(epoch) THEN start_epoch ELSE epoch[1] + 1

\* the outer loop's step and the head of its body: the minibatches of the epoch
EpochHead ==
    /\ pc = "epoch_head"
    /\ IF NextEpoch < args.num_epochs
       THEN /\ epoch' = Some(NextEpoch)
            /\ batch_it' = 0
            /\ LET num_batches == CeilDiv(data.Nimg, args.batch_size)
               IN  \E q \in permutation(data.Nimg) : batches' = ArraySplit(q, num_batches)
            /\ Goto("batch_head")
       ELSE /\ Goto("final_eval_mode")
            /\ UNCHANGED <<epoch, batch_it, batches>>
    /\ UNCHANGED <<cfgv, outv, setupv, modelv, minibatch_i, global_it, iter, trace>>

\* the inner loop's step: the next minibatch and the iteration counters
BatchHead ==
    /\ pc = "batch_head"
    /\ IF batches # <<>>
       THEN /\ minibatch_i' = Head(batches)
            /\ batches' = Tail(batches)
            /\ batch_it' = batch_it + Len(minibatch_i')
            /\ global_it' = data.Nimg * epoch[1] + batch_it'
            /\ trace' = <<>>
            /\ Goto("forward")
       ELSE /\ Goto("epoch_end")
            /\ UNCHANGED <<minibatch_i, batches, batch_it, global_it, trace>>
    /\ UNCHANGED <<cfgv, outv, setupv, modelv, epoch, iter>>

\* vae_rot.py: the encoder reads the minibatch of particles_real
Forward_rot ==
    /\ pc = "forward" /\ args.variant = "rot"
    /\ iter' = [NoIter EXCEPT !.enc_norm = stacks.real]
    /\ trace' = Append(trace, "forward")
    /\ Goto("loss")
    /\ UNCHANGED <<cfgv, outv, setupv, modelv, epoch, batches, minibatch_i, batch_it, global_it>>

\* vae_tilt.py: the encoder reads particles_real and particles_tilt; then the
\* equivariance coefficient and loss, or 0 and 0
Forward_tilt ==
    /\ pc = "forward" /\ args.variant = "tilt"
    /\ \E e \in data.eq_losses :
         iter' = [NoIter EXCEPT !.enc_norm = stacks.real, !.enc_norm_tilt = stacks.tilt,
                                !.lamb = IF TruthyFloat(args.equivariance) THEN Call(equivariance_lambda, global_it) ELSE R(0),
                                !.eq_loss = IF TruthyFloat(args.equivariance) THEN e ELSE R(0)]
    /\ trace' = Append(trace, "forward")
    /\ Goto("loss")
    /\ UNCHANGED <<cfgv, outv, setupv, modelv, epoch, batches, minibatch_i, batch_it, global_it>>

\* variant of ComposeLoss whose control penalty is not divided by nx*ny
ComposeLoss_ControlUndivided(gen_loss, kld, beta, beta_control, nx, ny) ==
    IF IsNone(beta_control)
    THEN RAdd(gen_loss, RDiv(RMul(beta, kld), R(nx * ny)))
    ELSE RAdd(gen_loss, RMul(beta_control[1], RMul(RSub(beta, kld), RSub(beta, kld))))

\* gen_loss + beta*kld/(nx*ny), or with a control weight
\* gen_loss + beta_control*(beta-kld)**2/(nx*ny)
ComposeLoss(gen_loss, kld, beta, beta_control, nx, ny) ==
    IF IsNone(beta_control)
    THEN RAdd(gen_loss, RDiv(RMul(beta, kld), R(nx * ny)))
    ELSE RAdd(gen_loss, RDiv(RMul(beta_control[1], RMul(RSub(beta, kld), RSub(beta, kld))), R(nx * ny)))

\* "if args.equivariance: loss += lamb*eq_loss"
AddEquivariance(loss, equivariance, lamb, eq_loss) == IF TruthyFloat(equivariance) THEN RAdd(loss, RMul(lamb, eq_loss)) ELSE loss

\* vae_rot.py: the targets are the minibatch of particles_ft
ComputeLoss_rot ==
    /\ pc = "loss" /\ args.variant = "rot"
    /\ \E g \in data.gen_losses, k \in data.klds :
         LET beta == Call(beta_schedule, global_it)
         IN  iter' = [iter EXCEPT !.target_norm = stacks.ft, !.gen_loss = g, !.kld = k, !.beta = beta,
                                  !.loss = ComposeLoss(g, k, beta, args.beta_control, data.nx, data.ny)]
    /\ trace' = Append(trace, "loss")
    /\ Goto("nan_check")
    /\ UNCHANGED <<cfgv, outv, setupv, modelv, epoch, batches, minibatch_i, batch_it, global_it>>

\* vae_tilt.py: the targets are particles_ft and particles_tilt_ft
ComputeLoss_tilt ==
    /\ pc = "loss" /\ args.variant = "tilt"
    /\ \E g \in data.gen_losses, k \in data.klds :
         LET beta == Call(beta_schedule, global_it)
         IN  iter' = [iter EXCEPT !.target_norm = stacks.ft, !.target_norm_tilt = stacks.tilt_ft, !.gen_loss = g, !.kld = k, !.beta = beta,
                                  !.loss = AddEquivariance(ComposeLoss(g, k, beta, args.beta_control, data.nx, data.ny), args.equivariance, iter.lamb, iter.eq_loss)]
    /\ trace' = Append(trace, "loss")
    /\ Goto("nan_check")
    /\ UNCHANGED <<cfgv, outv, setupv, modelv, epoch, batches, minibatch_i, batch_it, global_it>>

\* variant of NanCheck that never aborts
NanCheck_Skipped ==
    /\ pc = "nan_check"
    /\ trace' = Append(trace, "nan_check")
    /\ log' = log
    /\ Goto("backward")
    /\ UNCHANGED <<cfgv, vols, bundles, evalres, setupv, modelv, epoch, batches, minibatch_i, batch_it, global_it, iter>>

\* "if torch.isnan(kld):" two log lines, then RuntimeError
NanCheck ==
    /\ pc = "nan_check"
    /\ trace' = Append(trace, "nan_check")
    /\ IF IsNaN(iter.kld)
       THEN log' = log \o <<"w_eps[0]", "z_std[0]">> /\ Crash("RuntimeError: KLD is nan")
       ELSE log' = log /\ Goto("backward")
    /\ UNCHANGED <<cfgv, vols, bundles, evalres, setupv, modelv, epoch, batches, minibatch_i, batch_it, global_it, iter>>

\* loss.backward()
Backward ==
    /\ pc = "backward"
    /\ grad' = "computed"
    /\ trace' = Append(trace, "backward")
    /\ Goto("step")
    /\ UNCHANGED <<cfgv, outv, setupv, training, model_state, optim_state, epoch, batches, minibatch_i, batch_it, global_it, iter>>

\* variant of OptimStep that steps twice
OptimStep_Twice ==
    /\ pc = "step"
    /\ model_state' = model_state + 2
    /\ optim_state' = optim_state + 2
    /\ trace' = Append(trace, "step")
    /\ Goto("zero_grad")
    /\ UNCHANGED <<cfgv, outv, setupv, training, grad, epoch, batches, minibatch_i, batch_it, global_it, iter>>

\* optim.step()
OptimStep ==
    /\ pc = "step"
    /\ model_state' = model_state + 1
    /\ optim_state' = optim_state + 1
    /\ trace' = Append(trace, "step")
    /\ Goto("zero_grad")
    /\ UNCHANGED <<cfgv, outv, setupv, training, grad, epoch, batches, minibatch_i, batch_it, global_it, iter>>

\* optim.zero_grad(), the accumulators and the progress line
ZeroGrad ==
    /\ pc = "zero_grad"
    /\ grad' = "zero"
    /\ trace' = Append(trace, "zero_grad")
    /\ log' = IF batch_it % args.log_interval = 0 THEN Append(log, "train") ELSE log
    /\ Goto("batch_head")
    /\ UNCHANGED <<cfgv, vols, bundles, evalres, setupv, training, model_state, optim_state, epoch, batches, minibatch_i, batch_it, global_it, iter>>

(***************************************************************************)
(* Epoch boundary, checkpoints and the final save                          *)
(***************************************************************************)
\* nz = max(nx, ny)
Nz == Max(data.nx, data.ny)

\* eval_volume(model, nz, ny, nx, norm) as main calls it: vae_rot.py passes rnorm,
\* vae_tilt.py passes ft_norm
EvalVolumeCall ==
    IF args.variant = "rot"
    THEN eval_volume_rot(data.decoder, model_state, Nz, data.ny, data.nx, rnorm)
    ELSE eval_volume_tilt(data.decoder, model_state, Nz, data.ny, data.nx, ft_norm)

\* mrc.write(path, vol): vol is the inverse transform of the Fourier volume, kept
\* here as that Fourier volume
WriteVol(suffix, res) == {f \in vols : f.suffix # suffix} \cup {[suffix |-> suffix, vol |-> res.fed]}

\* torch.save({'epoch': e, 'model_state_dict': ..., 'optimizer_state_dict': ...}, path)
SaveBundle(suffix, e) == {b \in bundles : b.suffix # suffix} \cup {[suffix |-> suffix, epoch |-> e, model_state_dict |-> model_state, optimizer_state_dict |-> optim_state]}

\* the epoch's summary line, the checkpoint condition and model.eval()
EpochEnd ==
    /\ pc = "epoch_end"
    /\ log' = Append(log, "epoch")
    /\ IF args.checkpoint # 0 /\ epoch[1] % args.checkpoint = 0
       THEN training' = FALSE /\ Goto("ckpt_eval")
       ELSE training' = training /\ Goto("epoch_head")
    /\ UNCHANGED <<cfgv, vols, bundles, evalres, setupv, model_state, optim_state, grad, loopv>>

\* the checkpoint's eval_volume call, whose first statement asserts evaluation mode
CkptEval ==
    /\ pc = "ckpt_eval"
    /\ IF training
       THEN evalres' = [NoEval EXCEPT !.called = TRUE, !.training = TRUE] /\ Crash("AssertionError: model.training")
       ELSE evalres' = EvalVolumeCall /\ Goto("ckpt_write")
    /\ UNCHANGED <<cfgv, log, vols, bundles, setupv, modelv, loopv>>

\* reconstruct.<epoch>.mrc and weights.<epoch>.pkl
CkptWrite ==
    /\ pc = "ckpt_write"
    /\ vols' = WriteVol(epoch, evalres)
    /\ bundles' = SaveBundle(epoch, epoch[1])
    /\ Goto("ckpt_train")
    /\ UNCHANGED <<cfgv, log, evalres, setupv, modelv, loopv>>

\* variant of CkptTrain that leaves the model in evaluation mode
CkptTrain_Missing ==
    /\ pc = "ckpt_train"
    /\ Goto("epoch_head")
    /\ UNCHANGED <<cfgv, outv, setupv, modelv, loopv>>

\* model.train() that ends the checkpoint block
CkptTrain ==
    /\ pc = "ckpt_train"
    /\ training' = TRUE
    /\ Goto("epoch_head")
    /\ UNCHANGED <<cfgv, outv, setupv, model_state, optim_state, grad, loopv>>

\* model.eval() after the loop
FinalEvalMode ==
    /\ pc = "final_eval_mode"
    /\ training' = FALSE
    /\ Goto("final_eval")
    /\ UNCHANGED <<cfgv, outv, setupv, model_state, optim_state, grad, loopv>>

\* the final eval_volume call
FinalEval ==
    /\ pc = "final_eval"
    /\ IF training
       THEN evalres' = [NoEval EXCEPT !.called = TRUE, !.training = TRUE] /\ Crash("AssertionError: model.training")
       ELSE evalres' = EvalVolumeCall /\ Goto("final_write")
    /\ UNCHANGED <<cfgv, log, vols, bundles, setupv, modelv, loopv>>

\* reconstruct.mrc, then weights.pkl whose 'epoch' entry reads the loop variable:
\* when the loop never ran the name is unbound and building the bundle raises
FinalWrite ==
    /\ pc = "final_write"
    /\ vols' = WriteVol(None, evalres)
    /\ IF IsNone(epoch)
       THEN bundles' = bundles /\ Crash("UnboundLocalError: epoch")
       ELSE bundles' = SaveBundle(None, epoch[1]) /\ Goto("finish")
    /\ UNCHANGED <<cfgv, log, evalres, setupv, modelv, loopv>>

\* the closing log line, which divides the elapsed time by num_epochs
Finish ==
    /\ pc = "finish"
    /\ IF args.num_epochs = 0
       THEN log' = log /\ Crash("ZeroDivisionError: time per epoch")
       ELSE log' = Append(log, "finished") /\ Goto("done")
    /\ UNCHANGED <<cfgv, vols, bundles, evalres, setupv, modelv, loopv>>

Next ==
    \/ Validate_rot
    \/ Validate_tilt
    \/ LoadParticles_rot
    \/ LoadParticles_tilt
    \/ LoadTilt
    \/ BuildModel_rot
    \/ BuildModel_tilt
    \/ LoadCheckpoint
    \/ EpochHead
    \/ BatchHead
    \/ Forward_rot
    \/ Forward_tilt
    \/ ComputeLoss_rot
    \/ ComputeLoss_tilt
    \/ NanCheck
    \/ Backward
    \/ OptimStep
    \/ ZeroGrad
    \/ EpochEnd
    \/ CkptEval
    \/ CkptWrite
    \/ CkptTrain
    \/ FinalEvalMode
    \/ FinalEval
    \/ FinalWrite
    \/ Finish

Spec == Init /\ [][Next]_vars

(***************************************************************************)
(* Properties                                                              *)
(***************************************************************************)
KldNanError == "RuntimeError: KLD is nan"

\* the errors raised before the training loop is entered
StartupErrors == {"RuntimeError: beta schedule", "AssertionError: Need to set beta control weight", "AssertionError: Tilt series pair must have same dimensions", "AssertionError: Regularization weight must be positive", "ZeroDivisionError: equivariance ramp"}

StartupPcs == {"start", "load_particles", "load_tilt", "build_model", "load_checkpoint"}

IterationPcs == {"forward", "loss", "nan_check", "backward", "step", "zero_grad"}

Ended == pc \in {"crashed", "done"}

InTrace(step) == \E i \in 1..Len(trace) : trace[i] = step

\* the last n entries of the log
LogTail(n) == SubSeq(log, Len(log) - n + 1, Len(log))

\* C1: an iteration whose kld is NaN ends the run at the NaN check: the two log
\* lines (first noise draw, first dispersion) are written and RuntimeError is
\* raised, the iteration has done no backward pass and no optimizer step, model
\* parameters and optimizer state were not touched since the iteration began, no
\* file is written, and the run takes no further step.
C1_NanAbort ==
    [][/\ (pc = "nan_check" /\ IsNaN(iter.kld)) =>
             /\ pc' = "crashed" /\ err' = KldNanError
             /\ log' = log \o <<"w_eps[0]", "z_std[0]">>
             /\ trace' = <<"forward", "loss", "nan_check">>
             /\ UNCHANGED <<model_state, optim_state, grad, vols, bundles, epoch, batches>>
       /\ pc \in {"batch_head", "forward", "loss"} => UNCHANGED <<model_state, optim_state, grad, vols, bundles>>
       /\ pc # "crashed"
       /\ err' = KldNanError => (pc = "nan_check" /\ IsNaN(iter.kld))]_vars

\* C1 witness: a tilt-pair run aborted by a NaN kld in an iteration that follows completed ones
C1_Witness == pc = "crashed" /\ err = KldNanError /\ args.variant = "tilt" /\ model_state > 0 /\ LogTail(2) = <<"w_eps[0]", "z_std[0]">>

\* the un-suffixed volume file and the un-suffixed bundle are both written
FinalOutputsWritten == (\E f \in vols : f.suffix = None) /\ (\E b \in bundles : b.suffix = None)

\* C2: every run that passes start-up and is not aborted by a NaN kld ends with
\* both final outputs written, also when the epoch loop runs zero times.
C2_FinalOutputsAlways == (Ended /\ err \notin StartupErrors /\ err # KldNanError) => FinalOutputsWritten

\* beta names a schedule: a text that float() rejects
NamedBeta == args.beta.type = "str" /\ ~IsFloatText(args.beta.text)

\* beta is a constant: the default float or a numeric text
ConstantBeta == args.beta.type = "float" \/ IsFloatText(args.beta.text)

BadConfig ==
    \/ NamedBeta /\ IsNone(args.beta_control)
    \/ args.variant = "tilt" /\ data.tilt_shape # <<data.Nimg, data.ny, data.nx>>
    \/ args.variant = "tilt" /\ ~IsNone(args.equivariance) /\ RLt(args.equivariance[1], R(0))

\* C3: a run with a named beta schedule and no control weight, or (tilt) stacks
\* of different shapes, or (tilt) a negative equivariance weight never leaves
\* start-up: it never reaches the training loop, takes no optimizer step, writes
\* no file, and can only end with one of the start-up errors.
C3_EagerConfigErrors ==
    BadConfig =>
        /\ pc \in {"start", "load_particles", "load_tilt", "build_model", "crashed"}
        /\ model_state = 0 /\ optim_state = 0 /\ trace = <<>> /\ IsNone(epoch)
        /\ vols = {} /\ bundles = {}
        /\ pc = "crashed" => err \in StartupErrors

\* C3 witness: a tilt run with equal shapes and a valid beta stopped by its negative equivariance weight
C3_Witness == pc = "crashed" /\ err = "AssertionError: Regularization weight must be positive" /\ RLt(args.equivariance[1], R(0)) /\ ~NamedBeta

\* C4: a constant beta with no control weight passes validation, in both entry
\* points and whether it is the default float or a numeric text: the run is never
\* refused for its missing control weight, and it trains in fixed-weight mode.
C4_ConstantBetaNeedsNoControl ==
    (ConstantBeta /\ IsNone(args.beta_control)) =>
        /\ err # "AssertionError: Need to set beta control weight"
        /\ InTrace("loss") => iter.loss = RAdd(iter.gen_loss, RAdd(RDiv(RMul(iter.beta, iter.kld), R(data.nx * data.ny)), RMul(iter.lamb, iter.eq_loss)))

\* the loss without its equivariance term
BaseLoss == IF TruthyFloat(args.equivariance) THEN RSub(iter.loss, RMul(iter.lamb, iter.eq_loss)) ELSE iter.loss

\* C5: once an iteration has composed its loss, (loss - equivariance term -
\* gen_loss)*(nx*ny) is beta*kld without a control weight and gamma*(beta-kld)^2
\* with control weight gamma, beta being the schedule's value at the current
\* global iteration (the configured constant for a constant schedule); the
\* equivariance term is lamb*eq_loss with lamb the ramp's value at the current
\* global iteration when an equivariance weight is in force, and absent otherwise;
\* gen_loss 2.0, kld 1.0 on 10x10 images give 2.005 for beta 0.5 and 2.0016 for
\* target 0.8 with gamma 4.0.
C5_LossComposition ==
    InTrace("loss") =>
        /\ iter.beta = Call(beta_schedule, global_it)
        /\ args.beta.type = "float" => iter.beta = args.beta.val
        /\ TruthyFloat(args.equivariance) => iter.lamb = Call(equivariance_lambda, global_it)
        /\ IsNone(args.beta_control) =>
             RMul(RSub(BaseLoss, iter.gen_loss), R(data.nx * data.ny)) = RMul(iter.beta, iter.kld)
        /\ ~IsNone(args.beta_control) =>
             RMul(RSub(BaseLoss, iter.gen_loss), R(data.nx * data.ny)) = RMul(args.beta_control[1], RMul(RSub(iter.beta, iter.kld), RSub(iter.beta, iter.kld)))
        /\ (iter.gen_loss = R(2) /\ iter.kld = R(1) /\ data.nx = 10 /\ data.ny = 10 /\ IsNone(args.equivariance)) =>
             /\ (iter.beta = <<1, 2>> /\ IsNone(args.beta_control)) => iter.loss = Norm(2005, 1000)
             /\ (iter.beta = <<4, 5>> /\ args.beta_control = Some(R(4))) => iter.loss = Norm(20016, 10000)

\* C5 witness: a control-mode iteration of the tilt variant with a non-zero equivariance term
C5_Witness == pc = "nan_check" /\ args.variant = "tilt" /\ ~IsNone(args.beta_control) /\ RLt(R(0), RMul(iter.lamb, iter.eq_loss)) /\ RLt(R(0), iter.kld) /\ iter.beta # iter.kld

\* C6: the volume evaluator runs only in evaluation mode (its assertion never
\* fails), and every step of a training iteration runs in training mode.
C6_ModeDiscipline ==
    /\ evalres.called => ~evalres.training
    /\ err # "AssertionError: model.training"
    /\ pc \in {"ckpt_eval", "ckpt_write", "final_eval", "final_write"} => ~training
    /\ pc \in IterationPcs \cup {"batch_head"} => training

\* C6 witness: a resumed run in an iteration of an epoch that follows a checkpoint evaluation
C6_Witness == pc = "forward" /\ ~IsNone(args.load) /\ bundles # {} /\ evalres.called

\* the (offset, scale) of the Fourier-space stack, from the data
DataFtNorm == <<R(0), data.ft_std>>

\* the (offset, scale) of the real-space stack, from the data
DataRealNorm == <<R(0), data.real_medmax>>

\* C7: after every volume evaluation, the evaluator made nz = max(nx, ny) decoder
\* queries of ny*nx points, the i-th (i = 0..nz-1) at third-axis offset z with
\* z*nz = 2*i - nz, wrote slice i exactly once and in order, and handed the
\* inverse transform, in both variants, the volume whose slice i holds at point p
\* the decoder's value there times the Fourier scale plus the Fourier offset:
\* c*scale + offset everywhere for a decoder that returns the constant c.
C7_VolumeEvaluator ==
    (evalres.called /\ ~evalres.training) =>
        /\ Len(evalres.queries) = Nz /\ Len(evalres.fed) = Nz
        /\ evalres.writes = [k \in 1..Nz |-> k - 1]
        /\ \A k \in 1..Nz :
             /\ evalres.queries[k].npts = data.ny * data.nx
             /\ ~IsNaN(evalres.queries[k].z)
             /\ evalres.queries[k].z[1] * Nz = (2 * (k - 1) - Nz) * evalres.queries[k].z[2]
             /\ Len(evalres.fed[k]) = data.ny * data.nx
             /\ \A p \in 1..(data.ny * data.nx) :
                  /\ evalres.fed[k][p] = RAdd(RMul(Decoder(data.decoder, model_state, p, evalres.queries[k].z), DataFtNorm[2]), DataFtNorm[1])
                  /\ data.decoder.kind = "const" => evalres.fed[k][p] = RMul(data.decoder.c, data.ft_std)

\* C7 witness: the single-view evaluator on a 2-slice volume with the constant decoder -3/2 and Fourier scale 1/2
C7_Witness == evalres.called /\ args.variant = "rot" /\ Nz = 2 /\ data.ny * data.nx = 2 /\ data.decoder = [kind |-> "const", c |-> <<-3, 2>>] /\ data.ft_std = <<1, 2>> /\ pc = "done"

\* C8: in the tilt variant with an equivariance weight in force, the coefficient
\* computed in an iteration is between 0 and the configured maximum, is still
\* below the maximum before the configured ramp-end iteration, and is the
\* maximum at the ramp-end iteration and at every later one.
C8_EquivarianceRamp ==
    (InTrace("forward") /\ args.variant = "tilt" /\ TruthyFloat(args.equivariance)) =>
        /\ RLe(R(0), iter.lamb) /\ RLe(iter.lamb, args.equivariance[1])
        /\ global_it < args.equivariance_end_it => RLt(iter.lamb, args.equivariance[1])
        /\ global_it >= args.equivariance_end_it => iter.lamb = args.equivariance[1]

\* the particles are loaded and normalised
Loaded == pc \notin {"start", "load_particles"} /\ ~(pc = "crashed" /\ stacks.real = NoNorm)

\* C9: once the particles are loaded there is one real-space pair, (0, median of
\* the per-image maxima), and one Fourier pair, (0, standard deviation of the
\* Fourier stack), and no later step changes them; the tilted stack is normalised
\* with the same two pairs; every iteration's encoder input carries the
\* real-space pair and every target the Fourier pair; every volume evaluation
\* denormalises with the Fourier pair, which is not the real-space pair.
C9_Normalization ==
    /\ [](Loaded =>
            /\ stacks.real = DataRealNorm /\ stacks.ft = DataFtNorm
            /\ args.variant = "rot" => rnorm = DataFtNorm
            /\ args.variant = "tilt" => (real_norm = DataRealNorm /\ ft_norm = DataFtNorm)
            /\ stacks.tilt # NoNorm => (stacks.tilt = DataRealNorm /\ stacks.tilt_ft = DataFtNorm)
            /\ InTrace("forward") =>
                 /\ iter.enc_norm = DataRealNorm
                 /\ args.variant = "tilt" => iter.enc_norm_tilt = DataRealNorm
            /\ InTrace("loss") =>
                 /\ iter.target_norm = DataFtNorm
                 /\ args.variant = "tilt" => iter.target_norm_tilt = DataFtNorm
            /\ evalres.called => (evalres.norm = DataFtNorm /\ evalres.norm # DataRealNorm))
    /\ [][pc \notin {"start", "load_particles", "load_tilt"} => UNCHANGED <<stacks, rnorm, real_norm, ft_norm>>]_vars

\* C9 witness: a finished tilt-pair run that evaluated the volume at a checkpoint and at the end
C9_Witness == pc = "done" /\ args.variant = "tilt" /\ evalres.called /\ (\E b \in bundles : b.suffix # None) /\ data.ft_std = <<1, 2>>

\* minibatches per epoch
NumBatches == CeilDiv(data.Nimg, args.batch_size)

\* optimizer steps completed since the loop was entered
StepsDone ==
    IF IsNone(epoch) THEN 0
    ELSE (epoch[1] - start_epoch) * NumBatches + (NumBatches - Len(batches))
         - (IF Len(trace) < 5 /\ (pc \in IterationPcs \/ pc = "crashed") THEN 1 ELSE 0)

\* the parameters and optimizer state the loop started from
StartModelState == IF IsNone(args.load) THEN 0 ELSE args.load[1].model_state_dict

StartOptimState == IF IsNone(args.load) THEN 0 ELSE args.load[1].optimizer_state_dict

IterationOrder == <<"forward", "loss", "nan_check", "backward", "step", "zero_grad">>

\* C10: model parameters and optimizer state change only in the optimizer step
\* and in the checkpoint load; an iteration takes its steps in the order forward,
\* loss, NaN check, backward, optimizer step, gradient reset, and the next
\* minibatch is taken only after all six; parameters and optimizer state are the
\* starting ones advanced by exactly one step per completed iteration; and the
\* bundle written after epoch e holds the state after the last step of epoch e.
C10_StepBoundary ==
    /\ [][/\ (model_state' # model_state \/ optim_state' # optim_state) => pc \in {"step", "load_checkpoint"}
          /\ pc = "step" => (model_state' # model_state /\ optim_state' # optim_state)]_vars
    /\ [](pc \notin StartupPcs /\ err \notin StartupErrors =>
            /\ trace = SubSeq(IterationOrder, 1, Len(trace))
            /\ pc \in IterationPcs => IterationOrder[Len(trace) + 1] = pc
            /\ (pc = "batch_head" /\ batch_it > 0) => trace = IterationOrder
            /\ model_state = StartModelState + StepsDone
            /\ optim_state = StartOptimState + StepsDone
            /\ \A b \in bundles : b.suffix # None =>
                 /\ b.epoch = b.suffix[1]
                 /\ b.model_state_dict = StartModelState + (b.epoch - start_epoch + 1) * NumBatches
                 /\ b.optimizer_state_dict = StartOptimState + (b.epoch - start_epoch + 1) * NumBatches
            /\ pc \in {"ckpt_train", "finish", "done"} => \E b \in bundles : b.model_state_dict = model_state /\ b.optimizer_state_dict = optim_state)

\* C10 witness: a resumed run that has written a checkpoint bundle after training two epochs of two minibatches
C10_Witness == pc = "ckpt_train" /\ ~IsNone(args.load) /\ epoch = Some(start_epoch + 1) /\ NumBatches = 2 /\ (\E b \in bundles : b.suffix = epoch /\ b.model_state_dict = model_state)

\* the positions inside an epoch, up to and including its summary line
LoopPcs == {"batch_head", "epoch_end"} \cup IterationPcs

\* the positions after the epoch loop
AfterLoopPcs == {"final_eval_mode", "final_eval", "final_write", "finish", "done"}

\* the first epoch a run has to train: 0, or one past the epoch the loaded bundle records
FirstEpoch == IF IsNone(args.load) THEN 0 ELSE args.load[1].epoch + 1

\* the epochs trained so far: all their minibatches were visited and their summary line logged
Trained ==
    IF IsNone(epoch) THEN {}
    ELSE start_epoch..(IF pc \in LoopPcs \/ (pc = "crashed" /\ err = KldNanError) THEN epoch[1] - 1 ELSE epoch[1])

\* the epoch summary lines in the log
EpochLines == Cardinality({i \in 1..Len(log) : log[i] = "epoch"})

\* the interval is non-zero and k is a multiple of it
CheckpointDue(k) == args.checkpoint # 0 /\ \E m \in 0..k : k = m * args.checkpoint

\* the trained epochs whose checkpoint block has written its files
Checkpointed == {k \in Trained : CheckpointDue(k) /\ ~(pc \in {"ckpt_eval", "ckpt_write"} /\ epoch = Some(k))}

\* the epochs a run resumed from bundle b has to train
ResumeRange(b) == (b.epoch + 1)..(args.num_epochs - 1)

\* the epoch loop visits FirstEpoch..num_epochs-1, one after the other
EpochsInOrder ==
    pc \notin StartupPcs /\ err \notin StartupErrors =>
        /\ start_epoch = FirstEpoch
        /\ ~IsNone(epoch) => epoch[1] \in FirstEpoch..(args.num_epochs - 1)
        /\ EpochLines = Cardinality(Trained)
        /\ pc \in AfterLoopPcs =>
             /\ Trained = FirstEpoch..(args.num_epochs - 1)
             /\ model_state = StartModelState + Cardinality(Trained) * NumBatches

\* the files of epoch k exist exactly when its checkpoint is due, and its bundle
\* records k; a run resumed from any bundle written so far trains exactly the
\* epochs of the whole range that this run has not trained when it wrote it
CheckpointsAtMultiples ==
    pc \notin StartupPcs /\ err \notin StartupErrors =>
        /\ {b.suffix : b \in bundles} \ {None} = {Some(k) : k \in Checkpointed}
        /\ {f.suffix : f \in vols} \ {None} = {Some(k) : k \in Checkpointed}
        /\ \A b \in bundles : b.suffix # None => b.epoch = b.suffix[1]
        /\ \A b \in bundles : b.suffix = None => (Trained # {} /\ b.epoch = args.num_epochs - 1)
        /\ \A b \in bundles :
             /\ (FirstEpoch..b.epoch) \subseteq Trained
             /\ ResumeRange(b) \cap (FirstEpoch..b.epoch) = {}
             /\ (FirstEpoch..b.epoch) \cup ResumeRange(b) = FirstEpoch..Max(b.epoch, args.num_epochs - 1)

\* a run that passes start-up and meets no NaN kld ends normally
CompletesNormally == Ended => (pc = "done" \/ err \in StartupErrors \/ err = KldNanError)

\* the loop variable moves only at the head of the loop, to the first epoch and then
\* by one; files are written only by the checkpoint block of a due epoch and by the
\* final save, and the checkpoint block writes both files of its epoch
EpochSteps ==
    /\ epoch' # epoch => (pc = "epoch_head" /\ pc' = "batch_head" /\ epoch' = Some(IF IsNone(epoch) THEN FirstEpoch ELSE epoch[1] + 1))
    /\ (pc = "epoch_head" /\ pc' = "final_eval_mode") => Trained = FirstEpoch..(args.num_epochs - 1)
    /\ (pc = "epoch_end" /\ pc' = "ckpt_eval") <=> (pc = "epoch_end" /\ CheckpointDue(epoch[1]))
    /\ (vols' # vols \/ bundles' # bundles) => pc \in {"ckpt_write", "final_write"}
    /\ pc = "ckpt_write" =>
         /\ CheckpointDue(epoch[1])
         /\ \E f \in vols' : f.suffix = epoch
         /\ \E b \in bundles' : b.suffix = epoch /\ b.epoch = epoch[1]

\* C11: a fresh run trains epochs 0..num_epochs-1 and a run resumed from a bundle
\* recording epoch e trains e+1..num_epochs-1, each once and in increasing order,
\* and then ends normally; the volume file and the bundle suffixed k are written
\* after epoch k exactly when the checkpoint interval is non-zero and k is a
\* multiple of it, the bundle records epoch k, and resuming from any bundle the
\* run wrote neither retrains nor skips an epoch.
C11_EpochProgression == [](EpochsInOrder /\ CheckpointsAtMultiples /\ CompletesNormally) /\ [][EpochSteps]_vars

\* C11 without normal completion: the order of the epochs and the checkpoint rule
C11_ProgressionAndCheckpoints == [](EpochsInOrder /\ CheckpointsAtMultiples) /\ [][EpochSteps]_vars

\* a resumed run whose bundle already records the last epoch trains nothing and
\* ends in the final save
C11_EmptyRangeCrash == pc = "crashed" /\ err = "UnboundLocalError: epoch" /\ ~IsNone(args.load) /\ args.num_epochs > 0 /\ FirstEpoch >= args.num_epochs

\* a resumed run that trained two epochs and ended normally, with a checkpoint
\* written for one of them and none for the other
C11_ResumedRunDone == pc = "done" /\ ~IsNone(args.load) /\ Cardinality(Trained) = 2 /\ Cardinality(Checkpointed) = 1

RECURSIVE Flatten(_)
\* the minibatches of a sequence of minibatches, one after the other
Flatten(bs) == IF bs = <<>> THEN <<>> ELSE Head(bs) \o Flatten(Tail(bs))

\* every entry of s is an image index and none occurs twice
DistinctImages(s) == \A i, j \in 1..Len(s) : s[i] \in 0..(data.Nimg - 1) /\ (s[i] = s[j] => i = j)

\* ceil(n / b): the least k with n <= k*b
Ceil(n, b) == CHOOSE k \in 0..n : n <= k * b /\ (k = 0 \/ (k - 1) * b < n)

\* a minibatch has been taken in the current epoch
InMinibatch == pc \in IterationPcs \/ (pc = "batch_head" /\ batch_it > 0) \/ pc = "epoch_end" \/ (pc = "crashed" /\ err = KldNanError)

\* optimizer steps completed in the current epoch
EpochSteps_Done == model_state - StartModelState - (epoch[1] - start_epoch) * Ceil(data.Nimg, args.batch_size)

\* the minibatches of an epoch: what was drawn at its head, what is left, and the counters
MinibatchCoverage ==
    (pc \in LoopPcs \/ (pc = "crashed" /\ err = KldNanError)) =>
        LET n == data.Nimg
            b == args.batch_size
            rest == Flatten(batches)
            taken == Ceil(n, b) - Len(batches)
        IN  /\ n >= 1 /\ b >= 1
            /\ \A k \in 1..Len(batches) : Len(batches[k]) \in 1..b
            /\ DistinctImages(IF InMinibatch THEN minibatch_i \o rest ELSE rest)
            /\ batch_it = n - Len(rest)
            /\ taken \in 0..Ceil(n, b)
            /\ ~InMinibatch =>
                 /\ taken = 0 /\ batch_it = 0
                 /\ Len(rest) = n /\ {rest[i] : i \in 1..n} = 0..(n - 1)
            /\ InMinibatch =>
                 /\ taken >= 1
                 /\ Len(minibatch_i) \in 1..b
                 /\ global_it = n * epoch[1] + batch_it
                 /\ batches = <<>> <=> global_it = n * (epoch[1] + 1)
                 /\ InTrace("loss") => iter.beta = Call(beta_schedule, global_it)
                 /\ (InTrace("forward") /\ TruthyFloat(args.equivariance)) => iter.lamb = Call(equivariance_lambda, global_it)
                 /\ EpochSteps_Done = taken - (IF InTrace("step") THEN 0 ELSE 1)
            /\ pc = "epoch_end" =>
                 /\ batches = <<>> /\ batch_it = n /\ taken = Ceil(n, b)
                 /\ EpochSteps_Done = Ceil(n, b)

\* minibatches are drawn at the head of an epoch and taken one at a time from the
\* front; the global iteration changes only when a minibatch is taken, and grows
MinibatchSteps ==
    /\ batches' # batches => \/ pc = "epoch_head" /\ pc' = "batch_head"
                             \/ pc = "batch_head" /\ batches # <<>> /\ minibatch_i' = Head(batches) /\ batches' = Tail(batches)
    /\ minibatch_i' # minibatch_i => pc = "batch_head"
    /\ (pc = "batch_head" /\ pc' = "forward") => (batches # <<>> /\ batches' = Tail(batches) /\ global_it' > global_it)
    /\ (pc = "batch_head" /\ pc' = "epoch_end") => batches = <<>>
    /\ global_it' # global_it => (pc = "batch_head" /\ global_it' > global_it)
    /\ pc' = "step" => pc = "backward"

\* C12: in every epoch the minibatches partition the image indices 0..Nimg-1,
\* there are ceil(Nimg/B) of them and as many optimizer steps, none is empty or
\* larger than B; the global iteration given to the beta schedule and to the
\* equivariance coefficient is Nimg*epoch plus the images processed so far in the
\* epoch including the current minibatch, grows strictly over the run and is
\* Nimg*(epoch+1) at the last minibatch of the epoch.
C12_MinibatchCoverage == []MinibatchCoverage /\ [][MinibatchSteps]_vars

\* C12 witness: the second epoch of a run over three images in minibatches of at
\* most two has ended after two minibatches and four optimizer steps in all
C12_Witness == pc = "epoch_end" /\ data.Nimg = 3 /\ args.batch_size = 2 /\ epoch = Some(1) /\ global_it = 6 /\ Len(minibatch_i) = 1 /\ model_state = 4

====
